---- MODULE Spec2Model ----
(***************************************************************************)
(* Model of ota_upgrade (cli/rmaker_cmd/node.py): the two retry loops that *)
(* upload a firmware image (Phase A) and start / poll the OTA (Phase B).   *)
(* Every collaborator call (rmaker_lib session, node, service) is one step *)
(* whose outcome is chosen nondeterministically: a returned value, abstract*)
(* -ed to what the orchestrator tests of it, or a raised exception.        *)
(* Python values are abstracted to strings; "None" is None.                *)
(***************************************************************************)
EXTENDS Integers, Sequences, FiniteSets, TLC

MAX_HTTP_CONNECTION_RETRIES == 5

\* Largest number of empty results (nothing the orchestrator can cache) the
\* collaborators return in one run.
MaxEmpty == 1

\* The same bound for the runs checked for termination.
MaxEmptyLive == 0

\* Exception classes a collaborator may raise, by the except clause they reach.
Transient == {"NetworkError", "RequestTimeoutError"}
Fatal == {"SSLError", "Exception"}
Raisable == Transient \cup Fatal

\* Exceptions of the prologue and of the code between the loops.
LocalErrors == {"KeyError", "OSError", "TypeError"}

\* The collaborator operations, named as in the source.
PhaseAOps == {"Session", "Node", "verify_service_exists", "upload_ota_image"}
PhaseBOps == {"get_service_params", "get_node_params", "start_ota", "check_ota_status"}
Ops == PhaseAOps \cup PhaseBOps

\* Values each collaborator may return.
\* upload status: a string with 'success', a string without it, a truthy
\* value that is no container, or None.
UploadStatuses == {"success", "failure", "True", "None"}
\* upload response: a dict with 'image_url', a non-empty dict without it,
\* an empty dict, or None.
UploadResponses == {"withUrl", "noUrl", "empty", "None"}
\* verify_service_exists returns the config and name of the service found,
\* or a falsy pair.
Discoveries == {<<"cfg", "ota">>, <<"None", "None">>}
PropSets == {"props", "empty"}
NodeParams == {"params", "empty"}
StartStatuses == {"True", "False"}
OtaStatuses == {"True", "Empty", "False", "None"}

\* Python truthiness of an abstract value.
Truthy(v) == v \notin {"None", "empty", "Empty", "False"}

VARIABLES
  pc,                   \* position in ota_upgrade
  retries,              \* the retry budget of the running phase
  curr_session, node_object, service_obj, service_config, service_name,
  status, response,     \* result of upload_ota_image
  param_url_to_set, service_read_params, service_write_params,
  node_params, ota_start_status, ota_status,
  exc,                  \* exception raised in the current loop iteration
  calls,                \* op -> number of invocations
  rets,                 \* op -> number of invocations that returned
  fails,                \* op -> number of invocations that raised a transient error
  again,                \* ops invoked after they had already returned
  order,                \* ops in order of first invocation
  anomalies,            \* kinds of non-transient, non-success outcomes seen so far
  empties,              \* number of empty results returned so far
  iterCalls,            \* ops invoked in the current loop iteration
  emptyCap,             \* number of empty results the collaborators may return
  delays,               \* phase -> number of time.sleep(5) calls
  decs,                 \* phase -> number of budget decrements
  attempts,             \* phase -> number of loop iterations started
  outcome,              \* "none" while running, then "Success" or "Failed"
  escaped               \* an exception left ota_upgrade

aVars == <<curr_session, node_object, service_obj, service_config, service_name, status, response>>
bVars == <<param_url_to_set, service_read_params, service_write_params, node_params, ota_start_status, ota_status>>
callVars == <<calls, rets, fails, again, order, anomalies, empties, iterCalls, emptyCap, exc>>
loopVars == <<retries, delays, decs, attempts>>
endVars == <<outcome, escaped>>
vars == <<pc, aVars, bVars, callVars, loopVars, endVars>>

InSeq(x, s) == \E i \in 1..Len(s) : s[i] = x

\* State at the call of ota_upgrade, but for the bound on empty results.
Start ==
  /\ pc = "prologue"
  /\ retries = 0
  /\ curr_session = "None" /\ node_object = "None" /\ service_obj = "None"
  /\ service_config = "None" /\ service_name = "None"
  /\ status = "None" /\ response = "None"
  /\ param_url_to_set = "None"
  /\ service_read_params = "None" /\ service_write_params = "None"
  /\ node_params = "None" /\ ota_start_status = "None" /\ ota_status = "None"
  /\ exc = "none"
  /\ calls = [o \in Ops |-> 0]
  /\ rets = [o \in Ops |-> 0]
  /\ fails = [o \in Ops |-> 0]
  /\ again = {}
  /\ order = <<>>
  /\ anomalies = {}
  /\ empties = 0
  /\ iterCalls = {}
  /\ delays = [p \in {"A", "B"} |-> 0]
  /\ decs = [p \in {"A", "B"} |-> 0]
  /\ attempts = [p \in {"A", "B"} |-> 0]
  /\ outcome = "none"
  /\ escaped = FALSE

Init == Start /\ emptyCap = MaxEmpty

InitLive == Start /\ emptyCap = MaxEmptyLive

----------------------------------------------------------------------------
\* Bookkeeping of one collaborator invocation.

Invoke(op) ==
  /\ calls' = [calls EXCEPT ![op] = @ + 1]
  /\ again' = IF rets[op] > 0 THEN again \cup {op} ELSE again
  /\ order' = IF InSeq(op, order) THEN order ELSE Append(order, op)
  /\ iterCalls' = iterCalls \cup {op}

\* The invocation returns; tag is the anomaly it shows, or "ok"; empty tells
\* that the result is an empty one.
Return(op, tag, empty) ==
  /\ empty => empties < emptyCap
  /\ Invoke(op)
  /\ rets' = [rets EXCEPT ![op] = @ + 1]
  /\ anomalies' = IF tag = "ok" THEN anomalies ELSE anomalies \cup {tag}
  /\ empties' = IF empty THEN empties + 1 ELSE empties
  /\ UNCHANGED <<fails, exc, emptyCap>>

\* The invocation raises e; control goes to the except clauses at handler.
Raise(op, e, handler) ==
  /\ Invoke(op)
  /\ exc' = e
  /\ pc' = handler
  /\ fails' = IF e \in Transient THEN [fails EXCEPT ![op] = @ + 1] ELSE fails
  /\ anomalies' = IF e \in Transient THEN anomalies ELSE anomalies \cup {"fatal"}
  /\ UNCHANGED <<rets, empties, emptyCap>>

----------------------------------------------------------------------------
\* The except clauses.

\* Variant: the inner try does not list RequestTimeoutError as transient.
InnerHandler_TimeoutFatal(e) ==
  IF e = "SSLError" THEN "SSLError"
  ELSE IF e = "NetworkError" THEN "transient"
  ELSE "Exception"

\* Variant: the inner try treats SSLError as a transient error.
InnerHandler_SSLRetry(e) ==
  IF e \in Transient \cup {"SSLError"} THEN "transient" ELSE "Exception"

\* Clause of the inner try of either loop that catches e.
InnerHandler(e) ==
  IF e = "SSLError" THEN "SSLError"
  ELSE IF e \in Transient THEN "transient"
  ELSE "Exception"

\* Variant: the outer try has only its KeyError clause.
OuterHandler_KeyErrorOnly(e) == IF e = "KeyError" THEN "KeyError" ELSE "none"

\* Clause of the outer try that catches e; "none" if it propagates.
OuterHandler(e) ==
  IF e = "KeyError" THEN "KeyError"
  ELSE IF e \in Raisable \cup LocalErrors THEN "Exception"
  ELSE "none"

----------------------------------------------------------------------------
\* Prologue: read the arguments and the image file, initialise the locals.

Prologue ==
  /\ pc = "prologue"
  /\ \/ /\ pc' = "A_while"
        /\ retries' = MAX_HTTP_CONNECTION_RETRIES
        /\ UNCHANGED <<exc, anomalies>>
     \/ \E e \in LocalErrors :
          /\ exc' = e
          /\ anomalies' = anomalies \cup {"prologue"}
          /\ pc' = "outer_except"
          /\ UNCHANGED retries
  /\ UNCHANGED <<aVars, bVars, calls, rets, fails, again, order, empties, iterCalls, emptyCap,
                 delays, decs, attempts, endVars>>

OuterExcept ==
  /\ pc = "outer_except"
  /\ pc' = "done"
  /\ IF OuterHandler(exc) = "none"
       THEN escaped' = TRUE /\ UNCHANGED outcome
       ELSE outcome' = "Failed" /\ UNCHANGED escaped
  /\ UNCHANGED <<aVars, bVars, callVars, loopVars>>

----------------------------------------------------------------------------
\* Phase A: upload.

A_While ==
  /\ pc = "A_while"
  /\ IF retries > 0
       THEN /\ pc' = "A_session"
            /\ attempts' = [attempts EXCEPT !["A"] = @ + 1]
            /\ exc' = "none"
            /\ iterCalls' = {}
       ELSE /\ pc' = "A_post"
            /\ UNCHANGED <<attempts, exc, iterCalls>>
  /\ UNCHANGED <<aVars, bVars, calls, rets, fails, again, order, anomalies, empties,
                 emptyCap, retries, delays, decs, endVars>>

A_Session ==
  /\ pc = "A_session"
  /\ IF ~Truthy(curr_session)
       THEN \/ /\ Return("Session", "ok", FALSE)
               /\ curr_session' = "Session"
               /\ pc' = "A_node"
            \/ \E e \in Raisable :
                 /\ Raise("Session", e, "A_except")
                 /\ UNCHANGED curr_session
       ELSE /\ pc' = "A_node"
            /\ UNCHANGED <<curr_session, callVars>>
  /\ UNCHANGED <<node_object, service_obj, service_config, service_name, status, response,
                 bVars, loopVars, endVars>>

A_Node ==
  /\ pc = "A_node"
  /\ IF ~Truthy(node_object)
       THEN \/ /\ Return("Node", "ok", FALSE)
               /\ node_object' = "Node"
               /\ pc' = "A_service"
            \/ \E e \in Raisable :
                 /\ Raise("Node", e, "A_except")
                 /\ UNCHANGED node_object
       ELSE /\ pc' = "A_service"
            /\ UNCHANGED <<node_object, callVars>>
  /\ UNCHANGED <<curr_session, service_obj, service_config, service_name, status, response,
                 bVars, loopVars, endVars>>

\* service.Service() only builds a local object: no request, no result to test.
A_Service ==
  /\ pc = "A_service"
  /\ service_obj' = IF ~Truthy(service_obj) THEN "Service" ELSE service_obj
  /\ pc' = "A_discover"
  /\ UNCHANGED <<curr_session, node_object, service_config, service_name, status, response,
                 bVars, callVars, loopVars, endVars>>

\* Variant: the discovery result is not memoized.
NeedDiscovery_NoMemo == TRUE

\* Guard of the discovery sub-step.
NeedDiscovery == ~Truthy(service_config) /\ ~Truthy(service_name)

\* Variant: an empty discovery result does not leave the loop.
AfterDiscovery_NoBreak(c) == "A_upload"

\* Where control goes once verify_service_exists returned config c.
AfterDiscovery(c) == IF ~Truthy(c) THEN "A_post" ELSE "A_upload"

A_Discover ==
  /\ pc = "A_discover"
  /\ IF NeedDiscovery
       THEN \/ \E d \in Discoveries :
                 /\ Return("verify_service_exists", IF Truthy(d[1]) THEN "ok" ELSE "not_found", FALSE)
                 /\ service_config' = d[1]
                 /\ service_name' = d[2]
                 /\ pc' = AfterDiscovery(d[1])
            \/ \E e \in Raisable :
                 /\ Raise("verify_service_exists", e, "A_except")
                 /\ UNCHANGED <<service_config, service_name>>
       ELSE /\ pc' = "A_upload"
            /\ UNCHANGED <<service_config, service_name, callVars>>
  /\ UNCHANGED <<curr_session, node_object, service_obj, status, response,
                 bVars, loopVars, endVars>>

\* Guard of the upload sub-step.
NeedUpload == ~Truthy(status) /\ ~Truthy(response)

\* Anomaly shown by an upload result.
UploadTag(s, r) ==
  IF ~Truthy(s) /\ ~Truthy(r) THEN "upload_empty"
  ELSE IF ~Truthy(s) THEN "upload_no_status"
  ELSE IF s # "success" THEN "upload_failure"
  ELSE IF r # "withUrl" THEN "no_image_url"
  ELSE "ok"

\* Variant: a returned upload status does not leave the loop.
AfterUpload_NoBreak(s) == "A_sleep"

\* Where control goes once upload_ota_image returned status s.
AfterUpload(s) == IF Truthy(s) THEN "A_post" ELSE "A_sleep"

A_Upload ==
  /\ pc = "A_upload"
  /\ IF NeedUpload
       THEN \/ \E s \in UploadStatuses, r \in UploadResponses :
                 /\ Return("upload_ota_image", UploadTag(s, r), ~Truthy(s) /\ ~Truthy(r))
                 /\ status' = s
                 /\ response' = r
                 /\ pc' = AfterUpload(s)
            \/ \E e \in Raisable :
                 /\ Raise("upload_ota_image", e, "A_except")
                 /\ UNCHANGED <<status, response>>
       ELSE /\ pc' = "A_sleep"
            /\ UNCHANGED <<status, response, callVars>>
  /\ UNCHANGED <<curr_session, node_object, service_obj, service_config, service_name,
                 bVars, loopVars, endVars>>

A_Except ==
  /\ pc = "A_except"
  /\ pc' = IF InnerHandler(exc) = "transient" THEN "A_sleep" ELSE "A_post"
  /\ UNCHANGED <<aVars, bVars, callVars, loopVars, endVars>>

\* Variant: the budget is never decremented.
Decrement_None(r) == r

\* Variant: the budget is decremented twice per iteration.
Decrement_Twice(r) == r - 2

\* Budget left after one decrement.
Decrement(r) == r - 1

A_Sleep ==
  /\ pc = "A_sleep"
  /\ delays' = [delays EXCEPT !["A"] = @ + 1]
  /\ retries' = Decrement(retries)
  /\ decs' = [decs EXCEPT !["A"] = @ + (retries - retries')]
  /\ pc' = "A_while"
  /\ UNCHANGED <<aVars, bVars, callVars, attempts, endVars>>

\* After the loop: the session was never created.
A_PostNoNode ==
  /\ pc = "A_post"
  /\ node_object = "None"
  /\ outcome' = "Failed"
  /\ pc' = "done"
  /\ UNCHANGED <<aVars, bVars, callVars, loopVars, escaped>>

\* Variant: only a falsy upload status counts as a failed upload.
UploadFailed_FalsyOnly(s) == ~Truthy(s)

\* The test "not status or not 'success' in status".
UploadFailed(s) == ~Truthy(s) \/ s # "success"

\* After the loop: the upload did not succeed ('success' in status raises
\* TypeError when status is no container).
A_PostUploadFailed ==
  /\ pc = "A_post"
  /\ node_object # "None"
  /\ IF status = "True"
       THEN /\ exc' = "TypeError"
            /\ pc' = "outer_except"
            /\ UNCHANGED outcome
       ELSE /\ UploadFailed(status)
            /\ outcome' = "Failed"
            /\ pc' = "done"
            /\ UNCHANGED exc
  /\ UNCHANGED <<aVars, bVars, calls, rets, fails, again, order, anomalies, empties,
                 iterCalls, emptyCap, loopVars, escaped>>

\* Variant: Phase B goes on with what Phase A left of the budget.
FreshBudget_Carry == retries

\* Budget Phase B starts with.
FreshBudget == MAX_HTTP_CONNECTION_RETRIES

\* After the loop: the upload succeeded; initialise Phase B.
A_PostSuccess ==
  /\ pc = "A_post"
  /\ node_object # "None"
  /\ status # "True"
  /\ ~UploadFailed(status)
  /\ retries' = FreshBudget
  /\ ota_start_status' = "None"
  /\ node_params' = "None"
  /\ service_read_params' = "None"
  /\ service_write_params' = "None"
  /\ ota_status' = "None"
  /\ pc' = "B_while"
  /\ UNCHANGED <<aVars, param_url_to_set, callVars, delays, decs, attempts, endVars>>

----------------------------------------------------------------------------
\* Phase B: start the OTA and poll its status.

B_While ==
  /\ pc = "B_while"
  /\ IF retries > 0
       THEN /\ pc' = "B_check"
            /\ attempts' = [attempts EXCEPT !["B"] = @ + 1]
            /\ exc' = "none"
            /\ iterCalls' = {}
       ELSE /\ pc' = "B_post"
            /\ UNCHANGED <<attempts, exc, iterCalls>>
  /\ UNCHANGED <<aVars, bVars, calls, rets, fails, again, order, anomalies, empties,
                 emptyCap, retries, delays, decs, endVars>>

\* The test "'image_url' in response" (TypeError when response is None).
B_Check ==
  /\ pc = "B_check"
  /\ IF response = "None"
       THEN /\ exc' = "TypeError"
            /\ anomalies' = anomalies \cup {"fatal"}
            /\ pc' = "B_except"
            /\ UNCHANGED param_url_to_set
       ELSE IF response = "withUrl"
       THEN /\ param_url_to_set' = "url"
            /\ pc' = "B_props"
            /\ UNCHANGED <<exc, anomalies>>
       ELSE /\ pc' = "B_sleep"
            /\ UNCHANGED <<param_url_to_set, exc, anomalies>>
  /\ UNCHANGED <<aVars, service_read_params, service_write_params, node_params,
                 ota_start_status, ota_status, calls, rets, fails, again, order, empties,
                 iterCalls, emptyCap, loopVars, endVars>>

\* Guard of the property-resolution sub-step.
NeedProps == ~Truthy(service_read_params) /\ ~Truthy(service_write_params)

B_Props ==
  /\ pc = "B_props"
  /\ IF NeedProps
       THEN \/ \E r \in PropSets, w \in PropSets :
                 /\ Return("get_service_params", "ok", ~Truthy(r) /\ ~Truthy(w))
                 /\ service_read_params' = r
                 /\ service_write_params' = w
                 /\ pc' = "B_params"
            \/ \E e \in Raisable :
                 /\ Raise("get_service_params", e, "B_except")
                 /\ UNCHANGED <<service_read_params, service_write_params>>
       ELSE /\ pc' = "B_params"
            /\ UNCHANGED <<service_read_params, service_write_params, callVars>>
  /\ UNCHANGED <<aVars, param_url_to_set, node_params, ota_start_status, ota_status,
                 loopVars, endVars>>

\* Variant: the parameter fetch is skipped.
NeedParams_Skip == FALSE

\* Guard of the parameter-fetch sub-step.
NeedParams == ~Truthy(node_params)

B_Params ==
  /\ pc = "B_params"
  /\ IF NeedParams
       THEN \/ \E p \in NodeParams :
                 /\ Return("get_node_params", "ok", ~Truthy(p))
                 /\ node_params' = p
                 /\ pc' = "B_start"
            \/ \E e \in Raisable :
                 /\ Raise("get_node_params", e, "B_except")
                 /\ UNCHANGED node_params
       ELSE /\ pc' = "B_start"
            /\ UNCHANGED <<node_params, callVars>>
  /\ UNCHANGED <<aVars, param_url_to_set, service_read_params, service_write_params,
                 ota_start_status, ota_status, loopVars, endVars>>

\* Variant: the start result is not memoized.
NeedStart_NoMemo == TRUE

\* Guard of the start sub-step.
NeedStart == ~Truthy(ota_start_status)

\* Variant: a rejected start is retried instead of leaving the loop.
AfterStart_Retry(s) == IF ~Truthy(s) THEN "B_sleep" ELSE "B_poll"

\* Where control goes once start_ota returned s.
AfterStart(s) == IF ~Truthy(s) THEN "B_post" ELSE "B_poll"

B_Start ==
  /\ pc = "B_start"
  /\ IF NeedStart
       THEN \/ \E s \in StartStatuses :
                 /\ Return("start_ota", IF Truthy(s) THEN "ok" ELSE "start_rejected", FALSE)
                 /\ ota_start_status' = s
                 /\ pc' = AfterStart(s)
            \/ \E e \in Raisable :
                 /\ Raise("start_ota", e, "B_except")
                 /\ UNCHANGED ota_start_status
       ELSE /\ pc' = "B_poll"
            /\ UNCHANGED <<ota_start_status, callVars>>
  /\ UNCHANGED <<aVars, param_url_to_set, service_read_params, service_write_params,
                 node_params, ota_status, loopVars, endVars>>

\* Guard of the poll sub-step.
NeedPoll == ~Truthy(ota_status)

\* The test "ota_status in [None, False]".
PollFailed(s) == s \in {"None", "False"}

B_Poll ==
  /\ pc = "B_poll"
  /\ IF NeedPoll
       THEN \/ \E s \in OtaStatuses :
                 /\ Return("check_ota_status", IF PollFailed(s) THEN "poll_negative" ELSE "ok", FALSE)
                 /\ ota_status' = s
                 /\ pc' = "B_post"
            \/ \E e \in Raisable :
                 /\ Raise("check_ota_status", e, "B_except")
                 /\ UNCHANGED ota_status
       ELSE /\ pc' = "B_sleep"
            /\ UNCHANGED <<ota_status, callVars>>
  /\ UNCHANGED <<aVars, param_url_to_set, service_read_params, service_write_params,
                 node_params, ota_start_status, loopVars, endVars>>

B_Except ==
  /\ pc = "B_except"
  /\ pc' = IF InnerHandler(exc) = "transient" THEN "B_sleep" ELSE "B_post"
  /\ UNCHANGED <<aVars, bVars, callVars, loopVars, endVars>>

B_Sleep ==
  /\ pc = "B_sleep"
  /\ delays' = [delays EXCEPT !["B"] = @ + 1]
  /\ retries' = Decrement(retries)
  /\ decs' = [decs EXCEPT !["B"] = @ + (retries - retries')]
  /\ pc' = "B_while"
  /\ UNCHANGED <<aVars, bVars, callVars, attempts, endVars>>

\* After the loop: report failure unless a final status was obtained.
B_Post ==
  /\ pc = "B_post"
  /\ outcome' = IF PollFailed(ota_status) THEN "Failed" ELSE "Success"
  /\ pc' = "done"
  /\ UNCHANGED <<aVars, bVars, callVars, loopVars, escaped>>

----------------------------------------------------------------------------

Next ==
  \/ Prologue
  \/ OuterExcept
  \/ A_While
  \/ A_Session
  \/ A_Node
  \/ A_Service
  \/ A_Discover
  \/ A_Upload
  \/ A_Except
  \/ A_Sleep
  \/ A_PostNoNode
  \/ A_PostUploadFailed
  \/ A_PostSuccess
  \/ B_While
  \/ B_Check
  \/ B_Props
  \/ B_Params
  \/ B_Start
  \/ B_Poll
  \/ B_Except
  \/ B_Sleep
  \/ B_Post

Spec == Init /\ [][Next]_vars

\* The interpreter runs the next statement and every collaborator call
\* returns or raises: a step that can be taken is eventually taken.
FairSpec == InitLive /\ [][Next]_vars /\ WF_vars(Next)

----------------------------------------------------------------------------
\* Properties.

Upload == "upload_ota_image"
Discovery == "verify_service_exists"

\* C1: in a run in which no upload call returned an empty result (falsy
\* status and falsy response), which includes every run made only of
\* transient failures and successes, no Phase A sub-step (session, node
\* handle, discovery, upload) is invoked after it has returned, in Phase A
\* or during Phase B, and each returns at most once.
C1_Memoization ==
  "upload_empty" \notin anomalies =>
    /\ again \cap PhaseAOps = {}
    /\ \A op \in PhaseAOps : rets[op] <= 1

\* A run with transient failures in both phases after sub-steps had
\* returned, ending in Success.
W_C1 ==
  /\ pc = "done"
  /\ outcome = "Success"
  /\ anomalies = {}
  /\ fails[Discovery] >= 1
  /\ fails[Upload] >= 1
  /\ fails["start_ota"] >= 1

\* Every collaborator call of the phase raised a transient error.
AllTransient(P, first) ==
  /\ calls[first] > 0
  /\ \A op \in P : calls[op] = fails[op]

\* C2: when every collaborator call of a phase fails transiently, the phase
\* ends after exactly 5 attempts and exactly 4 delays.
CE_C2 ==
  /\ (pc = "A_post" /\ AllTransient(PhaseAOps, "Session")) =>
       (attempts["A"] = MAX_HTTP_CONNECTION_RETRIES
          /\ delays["A"] = MAX_HTTP_CONNECTION_RETRIES - 1)
  /\ (pc = "B_post" /\ AllTransient(PhaseBOps, "get_service_params")) =>
       (attempts["B"] = MAX_HTTP_CONNECTION_RETRIES
          /\ delays["B"] = MAX_HTTP_CONNECTION_RETRIES - 1)

NoTransientYet == \A op \in Ops : fails[op] = 0

\* Service discovery has returned without finding the OTA service.
NotFound == rets[Discovery] > 0 /\ ~Truthy(service_config)

\* C3: once discovery has returned without finding the OTA service, Phase A
\* is over and the run ends Failed; from then on no delay occurs, the budget
\* is not decremented and no collaborator is invoked; the upload and the
\* Phase B sub-steps are never invoked, and without an earlier transient
\* failure the run has no delay at all.
C3_NotFoundShortCircuit ==
  /\ [](NotFound =>
         /\ pc \in {"A_post", "done"}
         /\ calls[Upload] = 0
         /\ \A op \in PhaseBOps : calls[op] = 0
         /\ pc = "done" => outcome = "Failed"
         /\ NoTransientYet => (delays["A"] = 0 /\ delays["B"] = 0))
  /\ [][NotFound =>
          /\ delays' = delays
          /\ decs' = decs
          /\ retries' = retries
          /\ calls' = calls]_vars

\* Discovery found nothing after two transient failures; the run has ended.
W_C3 ==
  /\ pc = "done"
  /\ NotFound
  /\ outcome = "Failed"
  /\ delays["A"] = 2

\* The start command has returned a falsy result.
StartRejected == rets["start_ota"] > 0 /\ ~Truthy(ota_start_status)

\* C4: once start_ota has returned a falsy result, Phase B is over and the
\* run ends Failed; from then on no delay occurs, the budget is not
\* decremented, the start command is not issued again and the status is
\* never polled.
C4_StartRejectedShortCircuit ==
  /\ [](StartRejected =>
         /\ pc \in {"B_post", "done"}
         /\ calls["check_ota_status"] = 0
         /\ rets["start_ota"] = 1
         /\ pc = "done" => outcome = "Failed")
  /\ [][StartRejected =>
          /\ delays' = delays
          /\ decs' = decs
          /\ retries' = retries
          /\ calls' = calls]_vars

\* The start was rejected on a retry of Phase B; the run has ended.
W_C4 ==
  /\ pc = "done"
  /\ StartRejected
  /\ outcome = "Failed"
  /\ fails["start_ota"] >= 1
  /\ retries > 1

\* C5: once step (d) of a phase has returned (the upload in Phase A, the
\* status poll in Phase B), that phase starts no further attempt, sleeps no
\* more and decrements its budget no more.
CE_C5 ==
  [][/\ rets[Upload] > 0 =>
          /\ attempts'["A"] = attempts["A"]
          /\ delays'["A"] = delays["A"]
          /\ decs'["A"] = decs["A"]
     /\ rets["check_ota_status"] > 0 =>
          /\ attempts'["B"] = attempts["B"]
          /\ delays'["B"] = delays["B"]
          /\ decs'["B"] = decs["B"]]_vars

\* No collaborator showed an anomaly and only the upload failed transiently.
OnlyUploadFailed ==
  /\ anomalies = {}
  /\ \A op \in Ops \ {Upload} : fails[op] = 0

\* C6: if the OTA service exists, the upload raises a transient error k
\* times (k <= 4) and then succeeds, and nothing else fails, the run ends in
\* Success with k+1 upload invocations, one discovery invocation and k
\* delays in Phase A.
C6_RetryThenSucceed ==
  (pc = "done" /\ OnlyUploadFailed /\ fails[Upload] < MAX_HTTP_CONNECTION_RETRIES) =>
    /\ outcome = "Success"
    /\ calls[Upload] = fails[Upload] + 1
    /\ calls[Discovery] = 1
    /\ delays["A"] = fails[Upload]
    /\ decs["A"] = fails[Upload]

\* The upload succeeded on the last attempt of the budget.
W_C6 ==
  /\ pc = "done"
  /\ OnlyUploadFailed
  /\ fails[Upload] = MAX_HTTP_CONNECTION_RETRIES - 1
  /\ calls[Upload] = MAX_HTTP_CONNECTION_RETRIES
  /\ outcome = "Success"

\* C7: a run that returns ends in Success exactly when the upload status
\* contains 'success' and the poll returned a status that is neither None
\* nor False; a run in which the prologue failed, discovery found nothing,
\* the upload failed or lacked a status or an image_url, the start was
\* rejected, a fatal error was raised or a budget ran out ends in Failed.
C7_OutcomeReporting ==
  (pc = "done" /\ ~escaped) =>
    /\ outcome \in {"Success", "Failed"}
    /\ outcome = "Success" <=>
         /\ status = "success"
         /\ rets["check_ota_status"] = 1
         /\ ota_status \notin {"None", "False"}
    /\ outcome = "Success" => anomalies \subseteq {"upload_empty"}
    /\ retries = 0 => outcome = "Failed"
    /\ node_object = "None" => outcome = "Failed"

\* A run that ended in Success after a negative-looking but reportable path.
W_C7 ==
  /\ pc = "done"
  /\ outcome = "Success"
  /\ status = "success"
  /\ ota_status = "True"
  /\ delays["A"] >= 1
  /\ delays["B"] >= 1

\* C8: no exception leaves ota_upgrade: whatever is raised, the run returns
\* normally in Success or Failed.
C8_NoFaultEscapes ==
  /\ ~escaped
  /\ pc = "done" => outcome \in {"Success", "Failed"}

\* An exception raised outside the loops was turned into Failed.
W_C8 ==
  /\ pc = "done"
  /\ exc \in LocalErrors \ {"KeyError"}
  /\ outcome = "Failed"

\* C9: Phase B sleeps, decrements its budget or invokes a sub-step only if
\* the upload status contains 'success' and the response has an image_url.
CE_C9 ==
  (delays["B"] > 0 \/ decs["B"] > 0 \/ \E op \in PhaseBOps : calls[op] > 0) =>
    (status = "success" /\ response = "withUrl")

\* C10: when the OTA service exists and no collaborator call fails, the run
\* ends in Success, every sub-step is invoked exactly once, in the order
\* discovery, upload, parameter fetch, start, poll, and neither phase sleeps
\* or decrements its budget.
C10_HappyPath ==
  (pc = "done" /\ anomalies = {} /\ NoTransientYet) =>
    /\ outcome = "Success"
    /\ \A op \in Ops : calls[op] = 1
    /\ order = <<"Session", "Node", "verify_service_exists", "upload_ota_image",
                 "get_service_params", "get_node_params", "start_ota",
                 "check_ota_status">>
    /\ delays = [p \in {"A", "B"} |-> 0]
    /\ decs = [p \in {"A", "B"} |-> 0]
    /\ attempts = [p \in {"A", "B"} |-> 1]
    /\ retries = MAX_HTTP_CONNECTION_RETRIES

\* The run without any failure has ended.
W_C10 ==
  /\ pc = "done"
  /\ anomalies = {}
  /\ NoTransientYet
  /\ outcome = "Success"
  /\ calls["check_ota_status"] = 1

\* Transient failures raised by the sub-steps of each phase.
FailsA == fails["Session"] + fails["Node"] + fails[Discovery] + fails[Upload]
FailsB == fails["get_service_params"] + fails["get_node_params"]
            + fails["start_ota"] + fails["check_ota_status"]

\* A non-transient exception was raised inside one of the loops.
FatalSeen == "fatal" \in anomalies

\* C11: once a sub-step has raised SSLError or any other non-transient
\* exception, the phase is over and the run ends Failed; from then on no
\* collaborator is invoked (none of that phase, none of Phase B), no delay
\* occurs and the budget is not decremented.
C11_FatalAborts ==
  /\ [](FatalSeen =>
         /\ pc \in {"A_except", "A_post", "B_except", "B_post", "done"}
         /\ pc = "done" => outcome = "Failed")
  /\ [][FatalSeen =>
          /\ calls' = calls
          /\ delays' = delays
          /\ decs' = decs
          /\ attempts' = attempts
          /\ retries' = retries]_vars

\* SSLError was raised by start_ota on a retry of Phase B; the run has ended.
W_C11 ==
  /\ pc = "done"
  /\ FatalSeen
  /\ exc = "SSLError"
  /\ calls["start_ota"] = 2
  /\ outcome = "Failed"

\* The result of a sub-step is cached: the guard of the sub-step sees it.
Cached(op) ==
  CASE op = "Session" -> curr_session # "None"
    [] op = "Node" -> node_object # "None"
    [] op = "verify_service_exists" -> service_config = "cfg" \/ service_name = "ota"
    [] op = "upload_ota_image" -> status # "None" \/ response \in {"withUrl", "noUrl"}
    [] op = "get_service_params" ->
         service_read_params = "props" \/ service_write_params = "props"
    [] op = "get_node_params" -> node_params = "params"
    [] op = "start_ota" -> ota_start_status = "True"
    [] op = "check_ota_status" -> ota_status = "True"

\* The sub-steps of each phase, in the order of the code.
StepsA == <<"Session", "Node", "verify_service_exists", "upload_ota_image">>
StepsB == <<"get_service_params", "get_node_params", "start_ota", "check_ota_status">>

\* The sub-steps that stand before op in its phase.
Earlier(op) ==
  LET seq == IF op \in PhaseAOps THEN StepsA ELSE StepsB
      k == CHOOSE i \in 1..Len(seq) : seq[i] = op
  IN {seq[i] : i \in 1..(k - 1)}

\* No loop iteration fell through to the sleep without an exception.
NoFallThrough == anomalies \cap {"upload_empty", "upload_no_status", "no_image_url"} = {}

\* C12: a transient failure of a sub-step leads to the sleep, which delays
\* once and decrements the budget of the phase by exactly one, so that
\* without fall-through iterations the delays and decrements of a phase
\* equal its transient failures; an iteration invokes no sub-step whose
\* result is cached and skips no sub-step whose result is not.
C12_TransientStep ==
  /\ []((pc \notin {"A_except", "A_sleep", "B_except", "B_sleep"} /\ NoFallThrough) =>
         /\ delays["A"] = FailsA /\ decs["A"] = FailsA
         /\ delays["B"] = FailsB /\ decs["B"] = FailsB)
  /\ [][/\ (pc = "A_except" /\ exc \in Transient) => pc' = "A_sleep"
        /\ (pc = "B_except" /\ exc \in Transient) => pc' = "B_sleep"
        /\ pc = "A_sleep" =>
             /\ delays' = [delays EXCEPT !["A"] = @ + 1]
             /\ decs' = [decs EXCEPT !["A"] = @ + 1]
             /\ retries' = retries - 1
        /\ pc = "B_sleep" =>
             /\ delays' = [delays EXCEPT !["B"] = @ + 1]
             /\ decs' = [decs EXCEPT !["B"] = @ + 1]
             /\ retries' = retries - 1
        /\ \A op \in Ops : calls'[op] # calls[op] =>
             /\ ~Cached(op)
             /\ \A e \in Earlier(op) : Cached(e) \/ e \in iterCalls]_vars

\* Second iteration of Phase B after start_ota failed transiently: the cached
\* property sets and parameters were skipped, the start is next.
W_C12 ==
  /\ pc = "B_start"
  /\ attempts["B"] = 2
  /\ fails["start_ota"] = 1
  /\ retries = MAX_HTTP_CONNECTION_RETRIES - 1
  /\ iterCalls = {}
  /\ Cached("get_node_params")

\* C13: the node handle is created only when a session exists, discovery is
\* invoked only when the node handle exists, the upload only when discovery
\* found the OTA service, the property resolution and the parameter fetch
\* only when the upload succeeded with an image_url, the start command only
\* when the parameter fetch has returned, the poll only when the start was
\* accepted.
C13_StepOrder ==
  [][/\ calls'["Node"] # calls["Node"] => curr_session = "Session"
     /\ calls'[Discovery] # calls[Discovery] => node_object = "Node"
     /\ calls'[Upload] # calls[Upload] =>
          (rets[Discovery] > 0 /\ service_config = "cfg")
     /\ calls'["get_service_params"] # calls["get_service_params"] =>
          (status = "success" /\ response = "withUrl")
     /\ calls'["get_node_params"] # calls["get_node_params"] =>
          (status = "success" /\ response = "withUrl" /\ rets["get_service_params"] > 0)
     /\ calls'["start_ota"] # calls["start_ota"] => rets["get_node_params"] > 0
     /\ calls'["check_ota_status"] # calls["check_ota_status"] =>
          (rets["start_ota"] > 0 /\ ota_start_status = "True")]_vars

\* The poll has been invoked after every sub-step before it failed once.
W_C13 ==
  /\ calls["check_ota_status"] = 1
  /\ fails["Node"] = 1
  /\ fails[Discovery] = 1
  /\ fails["get_node_params"] = 1
  /\ fails["start_ota"] = 1

\* C14: in Phase B neither the parameter fetch nor the property resolution
\* is invoked again once it has returned, whatever it returned.
CE_C14 == again \cap {"get_node_params", "get_service_params"} = {}

\* C15 as stated: in a run that reaches the status poll the start command
\* has been issued exactly once.
CE_C15 == calls["check_ota_status"] > 0 => calls["start_ota"] = 1

\* C15, amended: the upload is not invoked again once it returned an
\* image_url; in a run that reaches the poll the start command was accepted
\* exactly once and was invoked once more only for each transient failure
\* of the start command itself; once accepted it is never invoked again,
\* also when the poll fails transiently.
C15_ReferenceOnce ==
  /\ [](calls["check_ota_status"] > 0 =>
         /\ rets["start_ota"] = 1
         /\ calls["start_ota"] = fails["start_ota"] + 1
         /\ "start_ota" \notin again
         /\ rets[Upload] >= 1
         /\ response = "withUrl")
  /\ [][/\ response = "withUrl" => (calls'[Upload] = calls[Upload] /\ response' = response)
        /\ rets["start_ota"] > 0 => calls'["start_ota"] = calls["start_ota"]]_vars

\* The poll was retried after a transient failure; the start had failed once
\* before it was accepted.
W_C15 ==
  /\ pc = "done"
  /\ fails["start_ota"] = 1
  /\ fails["check_ota_status"] >= 1
  /\ calls["check_ota_status"] >= 2
  /\ rets["start_ota"] = 1

PcsA == {"A_while", "A_session", "A_node", "A_service", "A_discover", "A_upload",
         "A_except", "A_sleep", "A_post"}
PcsB == {"B_while", "B_check", "B_props", "B_params", "B_start", "B_poll",
         "B_except", "B_sleep", "B_post"}

\* C16: each phase has its own budget of 5: during a phase the budget is 5
\* less the decrements of that phase, whatever the other phase consumed;
\* all sub-steps of a phase draw on it, so a phase sees at most 5 transient
\* failures in all; a run with at most 4 transient failures in each phase
\* and no other anomaly ends in Success.
C16_PerPhaseBudget ==
  /\ pc \in PcsA => retries = MAX_HTTP_CONNECTION_RETRIES - decs["A"]
  /\ pc \in PcsB => retries = MAX_HTTP_CONNECTION_RETRIES - decs["B"]
  /\ FailsA <= decs["A"] + (IF pc \in {"A_except", "A_sleep"} THEN 1 ELSE 0)
  /\ FailsB <= decs["B"] + (IF pc \in {"B_except", "B_sleep"} THEN 1 ELSE 0)
  /\ FailsA <= MAX_HTTP_CONNECTION_RETRIES
  /\ FailsB <= MAX_HTTP_CONNECTION_RETRIES
  /\ (/\ pc = "done"
      /\ anomalies = {}
      /\ FailsA < MAX_HTTP_CONNECTION_RETRIES
      /\ FailsB < MAX_HTTP_CONNECTION_RETRIES) => outcome = "Success"

\* The upload succeeded on the fifth attempt of Phase A and Phase B went
\* through four transient failures of three different sub-steps.
W_C16 ==
  /\ pc = "done"
  /\ outcome = "Success"
  /\ attempts["A"] = MAX_HTTP_CONNECTION_RETRIES
  /\ fails[Upload] = MAX_HTTP_CONNECTION_RETRIES - 1
  /\ FailsB = MAX_HTTP_CONNECTION_RETRIES - 1
  /\ fails["get_node_params"] >= 1
  /\ fails["start_ota"] >= 1
  /\ fails["check_ota_status"] >= 1

\* C17: the budget stays within 0..5; each phase runs at most 5 iterations;
\* each collaborator operation is invoked at most 5 times; a run has at most
\* 10 delays.
C17_BudgetBounds ==
  /\ retries >= 0
  /\ retries <= MAX_HTTP_CONNECTION_RETRIES
  /\ \A p \in {"A", "B"} : attempts[p] <= MAX_HTTP_CONNECTION_RETRIES
  /\ \A op \in Ops : calls[op] <= MAX_HTTP_CONNECTION_RETRIES
  /\ delays["A"] + delays["B"] <= 2 * MAX_HTTP_CONNECTION_RETRIES

\* Both phases ran all their iterations.
W_C17 ==
  /\ pc = "done"
  /\ attempts["A"] = MAX_HTTP_CONNECTION_RETRIES
  /\ attempts["B"] = MAX_HTTP_CONNECTION_RETRIES
  /\ retries = 0
  /\ calls["get_node_params"] = MAX_HTTP_CONNECTION_RETRIES

\* C19: a delay or a budget decrement happens only in an iteration in which
\* a sub-step raised NetworkError or RequestTimeoutError.
CE_C19 ==
  [][(delays' # delays \/ decs' # decs) => exc \in Transient]_vars

\* Distance to the end of the run: position in the iteration, budget left,
\* phase.
PosRank ==
  CASE pc \in {"A_while", "B_while"} -> 7
    [] pc \in {"A_session", "B_check"} -> 6
    [] pc \in {"A_node", "B_props"} -> 5
    [] pc \in {"A_service", "B_params"} -> 4
    [] pc \in {"A_discover", "B_start"} -> 3
    [] pc \in {"A_upload", "B_poll"} -> 2
    [] pc \in {"A_except", "B_except"} -> 1
    [] OTHER -> 0

Rank ==
  CASE pc = "prologue" -> 100
    [] pc \in PcsA \ {"A_post"} -> 52 + 8 * retries + PosRank
    [] pc = "A_post" -> 51
    [] pc \in PcsB \ {"B_post"} -> 3 + 8 * retries + PosRank
    [] pc = "B_post" -> 2
    [] pc = "outer_except" -> 1
    [] OTHER -> 0

====
